---- MODULE Spec2Model ----
(***************************************************************************)
(* PocketAlpha Pro (src/app.py): one Streamlit script run.                 *)
(*                                                                         *)
(* A run selects a ticker, get_live_intelligence fetches its trailing      *)
(* price history and derives (price, risk, signal, consistency, cagr),     *)
(* the page either shows the metrics or the "Unable to fetch data" error,  *)
(* and for a result the SIP simulator and the discipline score follow.     *)
(*                                                                         *)
(* Numbers.  Closes are integers (a price in its smallest unit).  Every    *)
(* float the script derives is kept as an exact rational [num, den] or as  *)
(* one of the IEEE specials the numpy arithmetic produces (nan, inf,       *)
(* -inf); comparisons with nan are false, as in numpy.  Rounding error of  *)
(* float64 is not modelled.  volatility = std * sqrt(252) is irrational,   *)
(* so the model keeps the sample variance and decides                      *)
(* "volatility < t" as "variance * 252 < t^2", which is the same           *)
(* comparison for the non-negative numbers involved.  The annuity value    *)
(* (1+r)^n with n up to 120 does not fit a machine integer, so a future    *)
(* value of the r > 0 branch is kept as the closed-form term               *)
(* m * (((1+r)^n - 1) / r) with its exact arguments m, r, n.               *)
(***************************************************************************)
EXTENDS Integers, Sequences, FiniteSets, TLC

\* ---------------------------------------------------------------- bounds
\* Longest exhaustively enumerated history.
ShortLen == 3
\* Longest history of the near-flat family (one more than the window).
MaxLen == 51
\* Most calendar months a one-record-per-month history spans.
MaxMonths == 14
\* Records per calendar month in the near-flat family.
DaysPerMonth == 21

\* ------------------------------------------------------ program constants
Window == 50
TradingDays == 252
MonthsDivisor == 12
MonthsPerYear == 12
MinYears == 1
MaxYears == 10
BaseScore == 50
ScoreCap == 100

\* ------------------------------------------------------------ arithmetic
Abs(x) == IF x < 0 THEN -x ELSE x

RECURSIVE GCD(_, _)
GCD(a, b) == IF b = 0 THEN a ELSE GCD(b, a % b)

LCM(a, b) == (a \div GCD(a, b)) * b

RECURSIVE Pow(_, _)
Pow(b, e) == IF e = 0 THEN 1 ELSE b * Pow(b, e - 1)

Min(a, b) == IF a < b THEN a ELSE b

\* float values: an exact rational, or an IEEE special
NaN == [kind |-> "nan", num |-> 0, den |-> 1]
PosInf == [kind |-> "inf", num |-> 1, den |-> 0]
NegInf == [kind |-> "-inf", num |-> -1, den |-> 0]
Rat(n, d) == [kind |-> "num", num |-> n, den |-> d]

IsNum(x) == x.kind = "num"

\* n / d in lowest terms, d > 0
Reduced(n, d) ==
    LET g == GCD(Abs(n), d)
    IN  Rat(n \div g, d \div g)

\* x > 0 on floats: false for nan
Positive(x) == \/ x.kind = "inf"
               \/ (IsNum(x) /\ x.num > 0)

\* x*s < y*t for x, y >= 0 and s, t > 0, without forming x*s when t = 1
MulLess(x, s, y, t) ==
    IF t = 1 THEN y > 0 /\ x <= (y - 1) \div s
             ELSE x * s < y * t

\* s[lo] + ... + s[hi], summed by halves
RECURSIVE SumRange(_, _, _)
SumRange(s, lo, hi) ==
    IF lo > hi THEN 0
    ELSE IF lo = hi THEN s[lo]
    ELSE LET mid == (lo + hi) \div 2
         IN  SumRange(s, lo, mid) + SumRange(s, mid + 1, hi)

\* ---------------------------------------------- what the provider returns
\* A history is a date-ordered sequence of records [close, month]; month is
\* the index of the record's calendar month.  The provider is external and
\* the script checks nothing but emptiness: a close of 0 can arrive, and so
\* can more calendar months than the requested year.
PosCloses == {20, 24, 25}
Closes == PosCloses \cup {0}

\* every history of at most ShortLen positive closes, all in one month or
\* one per month
ShortHistories ==
    UNION { { [i \in 1..n |-> [close |-> c[i], month |-> IF spread THEN i ELSE 1]]
              : c \in [1..n -> PosCloses], spread \in BOOLEAN }
            : n \in 0..ShortLen }

\* the histories of 2..ShortLen records in which a close is 0
ZeroCloseHistories ==
    UNION { { [i \in 1..n |-> [close |-> c[i], month |-> IF spread THEN i ELSE 1]]
              : c \in {d \in [1..n -> Closes] : \E i \in 1..n : d[i] = 0},
                spread \in BOOLEAN }
            : n \in 2..ShortLen }

\* around the moving-average window: first close f, last close t, flat between
LongHistories ==
    { [i \in 1..n |-> [close |-> IF i = 1 THEN f ELSE IF i = n THEN t ELSE a,
                       month |-> 1 + (i - 1) \div DaysPerMonth]]
      : n \in (Window - 1)..MaxLen, f \in Closes, a \in PosCloses, t \in Closes }

\* one record per month: u months up by half, then months down by half
MonthlyHistories ==
    UNION { { [i \in 1..n |-> [close |-> Pow(2, n - i) * Pow(3, Min(i - 1, u)),
                               month |-> i]]
              : u \in 0..(n - 1) }
            : n \in 2..MaxMonths }

\* daily returns -1/56, -1/84, 1/84: annualized volatility exactly 0.25
QuarterVolHistory ==
    [i \in 1..4 |-> [close |-> <<395136, 388080, 383460, 388025>>[i], month |-> 1]]

\* daily returns -1/35, -2/105, 2/105: annualized volatility exactly 0.40
FortyVolHistory ==
    [i \in 1..4 |-> [close |-> <<385875, 374850, 367710, 374714>>[i], month |-> 1]]

Histories ==
    ShortHistories \cup ZeroCloseHistories \cup LongHistories \cup MonthlyHistories
        \cup {QuarterVolHistory, FortyVolHistory}

\* ------------------------------------------ engine: get_live_intelligence
CloseOf(h) == [i \in 1..Len(h) |-> h[i].close]

\* the mean of the whole series instead of the trailing window
MeanOfAll(c, w) == Rat(SumRange(c, 1, Len(c)), Len(c))

\* Series.rolling(window=w).mean().iloc[-1]: min_periods defaults to the
\* window, so fewer than w observations give nan
RollingMeanLast(c, w) ==
    IF Len(c) < w THEN NaN
    ELSE Rat(SumRange(c, Len(c) - w + 1, Len(c)), w)

BUY_ZONE == "BUY ZONE"
HOLD_WAIT == "HOLD / WAIT"

\* current_price < ma_50, false when ma_50 is nan
Signal(current_price, ma_50) ==
    IF IsNum(ma_50) /\ current_price * ma_50.den < ma_50.num
    THEN BUY_ZONE ELSE HOLD_WAIT

\* cur / prev - 1 in float64: x/0 is inf for x > 0 and nan for x = 0
Change(cur, prev) ==
    IF prev = 0 THEN (IF cur > 0 THEN PosInf ELSE NaN)
    ELSE Reduced(cur - prev, prev)

\* Series.pct_change() without its leading nan
PctChange(c) == [i \in 1..(Len(c) - 1) |-> Change(c[i + 1], c[i])]

\* the common denominator of rs[lo..hi]
RECURSIVE LcmDen(_, _, _)
LcmDen(rs, lo, hi) ==
    IF lo > hi THEN 1
    ELSE IF lo = hi THEN rs[lo].den
    ELSE LET mid == (lo + hi) \div 2
             a == LcmDen(rs, lo, mid)
             b == LcmDen(rs, mid + 1, hi)
         IN  LCM(a, b)

IsNotNaN(x) == x.kind # "nan"

\* Series.std() ** 2 (skipna, ddof = 1): nan observations are dropped; the
\* result is nan for fewer than 2 observations or when one is infinite;
\* else (k*sum(R^2) - sum(R)^2) / (k*(k-1)*L^2) with the observations
\* R[i] / L over their common denominator L
SampleVariance(series) ==
    LET rs == SelectSeq(series, IsNotNaN)
        k == Len(rs)
    IN  IF k < 2 \/ (\E i \in 1..k : ~IsNum(rs[i])) THEN NaN
        ELSE LET L == LcmDen(rs, 1, k)
                 R == [i \in 1..k |-> rs[i].num * (L \div rs[i].den)]
                 S1 == SumRange(R, 1, k)
                 S2 == SumRange([i \in 1..k |-> R[i] * R[i]], 1, k)
             IN  Rat(k * S2 - S1 * S1, k * (k - 1) * L * L)

\* std * sqrt(252) < tnum/tden, false when the variance is nan
VolatilityBelow(variance, tnum, tden) ==
    /\ IsNum(variance)
    /\ LET s == TradingDays * tden * tden
           t == tnum * tnum
           g == GCD(s, t)
       IN  MulLess(variance.num, s \div g, variance.den, t \div g)

LOW == "Low Risk"
MODERATE == "Moderate Risk"
HIGH == "High Risk"

\* both thresholds inclusive: std * sqrt(252) <= 0.25, <= 0.40
RiskTierInclusive(variance) ==
    IF IsNum(variance) /\ variance.num <= variance.den \div 4032 THEN LOW
    ELSE IF IsNum(variance) /\ variance.num <= variance.den \div 1575 THEN MODERATE
    ELSE HIGH

RiskTier(variance) ==
    IF VolatilityBelow(variance, 25, 100) THEN LOW
    ELSE IF VolatilityBelow(variance, 40, 100) THEN MODERATE
    ELSE HIGH

\* resample('M').last(): the last close of every calendar month
RECURSIVE MonthEnds(_, _, _)
MonthEnds(h, lo, hi) ==
    IF lo > hi THEN << >>
    ELSE IF lo = hi
         THEN (IF lo = Len(h) \/ h[lo + 1].month # h[lo].month
               THEN <<h[lo].close>> ELSE << >>)
    ELSE LET mid == (lo + hi) \div 2
         IN  MonthEnds(h, lo, mid) \o MonthEnds(h, mid + 1, hi)

\* (monthly_returns > 0).sum()
CountPositive(rs) == Cardinality({i \in 1..Len(rs) : Positive(rs[i])})

\* round() instead of int()
ConsistencyScoreRounded(positive_months) ==
    (positive_months * 100 + MonthsDivisor \div 2) \div MonthsDivisor

\* int((positive_months / 12) * 100)
ConsistencyScore(positive_months) ==
    (positive_months * 100) \div MonthsDivisor

NoData == [kind |-> "NoData"]

Bundle(h) ==
    LET c == CloseOf(h)
        current_price == c[Len(c)]
        ma_50 == RollingMeanLast(c, Window)
        variance == SampleVariance(PctChange(c))
        monthly_returns == PctChange(MonthEnds(h, 1, Len(h)))
    IN  [kind |-> "Bundle",
         price |-> current_price,
         risk |-> RiskTier(variance),
         signal |-> Signal(current_price, ma_50),
         consistency |-> ConsistencyScore(CountPositive(monthly_returns)),
         cagr |-> Change(c[Len(c)], c[1])]

\* if hist.empty: return None
GetLiveIntelligence(h) == IF Len(h) = 0 THEN NoData ELSE Bundle(h)

\* ------------------------------------------------------- the page script
None == [kind |-> "none"]

\* "if result:": None is falsy, the 6-tuple is truthy
Truthy(res) == res # NoData

BLANK == "blank"
METRICS == "metrics"
UNABLE == "Unable to fetch data. Try another stock."

\* the page without its else branch
ScreenForNoElse(res) == IF Truthy(res) THEN METRICS ELSE BLANK

\* what the page shows for the engine's result
ScreenFor(res) == IF Truthy(res) THEN METRICS ELSE UNABLE

\* st.number_input("Monthly Investment", value=500): no min_value is given
Budgets == {-100, 0, 100, 500, 1000}
\* st.slider("Investment Duration (Years)", 1, 10, 2)
SliderYears == MinYears..MaxYears

\* cagr / 12
MonthlyRate(cagr) ==
    IF IsNum(cagr) THEN Reduced(cagr.num, cagr.den * MonthsPerYear) ELSE cagr

\* the exact value m * (((1 + r)^n - 1) / r), r > 0 finite
Annuity(m, r, n) == [kind |-> "annuity", m |-> m, r |-> r, n |-> n]

\* the annuity branch taken for r >= 0
FutureValueNonNegative(m, r, n) ==
    IF Positive(r) \/ (IsNum(r) /\ r.num = 0)
    THEN (IF IsNum(r) THEN Annuity(m, r, n) ELSE NaN)
    ELSE Rat(m * n, 1)

\* lines 140-143; for r = inf the quotient inf / inf is nan
FutureValue(m, r, n) ==
    IF Positive(r)
    THEN (IF IsNum(r) THEN Annuity(m, r, n) ELSE NaN)
    ELSE Rat(m * n, 1)

\* monthly_budget / price on a numpy float: a zero price gives inf or nan
\* (with a RuntimeWarning), never an exception
Units(m, price) ==
    IF price = 0
    THEN (IF m > 0 THEN PosInf ELSE IF m < 0 THEN NegInf ELSE NaN)
    ELSE Rat(m, price)

\* the duration bonus of 20 only above 5 years
DisciplineScoreStrict(y, m, risk) ==
    LET s0 == BaseScore
        s1 == IF y > 5 THEN s0 + 20 ELSE IF y >= 3 THEN s0 + 10 ELSE s0
        s2 == IF m >= 1000 THEN s1 + 15 ELSE IF m >= 500 THEN s1 + 10 ELSE s1
        s3 == IF risk = LOW THEN s2 + 15 ELSE s2
    IN  Min(s3, ScoreCap)

\* lines 154-169
DisciplineScore(y, m, risk) ==
    LET s0 == BaseScore
        s1 == IF y >= 5 THEN s0 + 20 ELSE IF y >= 3 THEN s0 + 10 ELSE s0
        s2 == IF m >= 1000 THEN s1 + 15 ELSE IF m >= 500 THEN s1 + 10 ELSE s1
        s3 == IF risk = LOW THEN s2 + 15 ELSE s2
    IN  Min(s3, ScoreCap)

VARIABLES
    pc,               \* where the script run stands
    hist,             \* the provider's answer (line 49)
    result,           \* get_live_intelligence's return value (line 114)
    screen,           \* what the page shows
    monthly_budget,   \* line 134
    years,            \* line 135
    fv,               \* lines 140-143
    units,            \* line 145
    discipline_score  \* lines 154-169
vars == <<pc, hist, result, screen, monthly_budget, years, fv, units, discipline_score>>

Init ==
    /\ pc = "select"
    /\ hist = << >>
    /\ result = NoData
    /\ screen = BLANK
    /\ monthly_budget = None
    /\ years = None
    /\ fv = None
    /\ units = None
    /\ discipline_score = None

\* stock.history(period="1y"): the provider's answer for the selected ticker
FetchHistory ==
    /\ pc = "select"
    /\ \E h \in Histories : hist' = h
    /\ pc' = "analyze"
    /\ UNCHANGED <<result, screen, monthly_budget, years, fv, units, discipline_score>>

\* the rest of get_live_intelligence
Analyze ==
    /\ pc = "analyze"
    /\ result' = GetLiveIntelligence(hist)
    /\ pc' = "render"
    /\ UNCHANGED <<hist, screen, monthly_budget, years, fv, units, discipline_score>>

\* "if result:" shows the four metrics and the chart, "else:" st.error
Render ==
    /\ pc = "render"
    /\ screen' = ScreenFor(result)
    /\ pc' = IF Truthy(result) THEN "inputs" ELSE "done"
    /\ UNCHANGED <<hist, result, monthly_budget, years, fv, units, discipline_score>>

\* the two widgets of the SIP simulator
EnterInputs ==
    /\ pc = "inputs"
    /\ \E m \in Budgets, y \in SliderYears :
          /\ monthly_budget' = m
          /\ years' = y
    /\ pc' = "project"
    /\ UNCHANGED <<hist, result, screen, fv, units, discipline_score>>

ProjectSIP ==
    /\ pc = "project"
    /\ LET r == MonthlyRate(result.cagr)
           n == years * MonthsPerYear
       IN  fv' = FutureValue(monthly_budget, r, n)
    /\ units' = Units(monthly_budget, result.price)
    /\ pc' = "score"
    /\ UNCHANGED <<hist, result, screen, monthly_budget, years, discipline_score>>

ScoreDiscipline ==
    /\ pc = "score"
    /\ discipline_score' = DisciplineScore(years, monthly_budget, result.risk)
    /\ pc' = "done"
    /\ UNCHANGED <<hist, result, screen, monthly_budget, years, fv, units>>

\* a new selection or a changed widget runs the script again from the top
Rerun ==
    /\ pc = "done"
    /\ pc' = "select"
    /\ hist' = << >>
    /\ result' = NoData
    /\ screen' = BLANK
    /\ monthly_budget' = None
    /\ years' = None
    /\ fv' = None
    /\ units' = None
    /\ discipline_score' = None

Next ==
    \/ FetchHistory
    \/ Analyze
    \/ Render
    \/ EnterInputs
    \/ ProjectSIP
    \/ ScoreDiscipline
    \/ Rerun

Spec == Init /\ [][Next]_vars

\* ---------------------------------------------------------------- claims
Analyzed == pc \notin {"select", "analyze"}
HasBundle == Analyzed /\ result # NoData
Projected == HasBundle /\ pc \in {"score", "done"}
Scored == HasBundle /\ pc = "done"

\* C1: an empty history makes get_live_intelligence return NoData; that run
\* computes no SIP projection and no discipline score and ends on the
\* "Unable to fetch data. Try another stock." screen.
C1_EmptyHistoryEndsUnavailable ==
    (Analyzed /\ Len(hist) = 0) =>
        /\ result = NoData
        /\ pc \in {"render", "done"}
        /\ fv = None /\ units = None /\ discipline_score = None
        /\ (pc = "done" => screen = UNABLE)

C1_Witness ==
    pc = "done" /\ Len(hist) = 0 /\ result = NoData /\ screen = UNABLE

\* C2: a history of fewer than 2 records (empty or a single record) is
\* reported as NoData and no derived metric is returned.
C2_FewerThanTwoRecordsIsNoData ==
    (Analyzed /\ Len(hist) < 2) => result = NoData

\* C3: for 2 <= records < 50 the moving average is the mean of all the
\* closes, so the signal is BUY_ZONE iff the last close is strictly below
\* the mean of all closes, else HOLD_WAIT.
C3_ShortHistoryUsesAvailableMean ==
    (HasBundle /\ Len(hist) >= 2 /\ Len(hist) < Window) =>
        LET c == CloseOf(hist)
        IN  /\ result.signal \in {BUY_ZONE, HOLD_WAIT}
            /\ result.signal = BUY_ZONE <=>
                   c[Len(c)] * Len(c) < SumRange(c, 1, Len(c))

\* C4: for at least 50 records the signal is BUY_ZONE iff the last close is
\* strictly below the mean of the last 50 closes; at or above it, HOLD_WAIT.
C4_SignalAgainstFiftyDayMean ==
    (HasBundle /\ Len(hist) >= Window) =>
        LET c == CloseOf(hist)
            last50 == SumRange(c, Len(c) - Window + 1, Len(c))
        IN  /\ result.price = c[Len(c)]
            /\ (c[Len(c)] * Window < last50) => result.signal = BUY_ZONE
            /\ (c[Len(c)] * Window >= last50) => result.signal = HOLD_WAIT

C4_Witness ==
    /\ HasBundle /\ Len(hist) > Window
    /\ result.signal = BUY_ZONE
    /\ hist[1].close < result.price

\* positions of the month-end records, and the month-over-month changes
MonthEndIdx(h) == {i \in 1..Len(h) : i = Len(h) \/ h[i + 1].month # h[i].month}
PrevMonthEnd(h, i) ==
    CHOOSE j \in MonthEndIdx(h) :
        j < i /\ \A k \in MonthEndIdx(h) : ~(j < k /\ k < i)
Transitions(h) == {i \in MonthEndIdx(h) : \E j \in MonthEndIdx(h) : j < i}
Rising(h) == {i \in Transitions(h) : h[i].close > h[PrevMonthEnd(h, i)].close}
Falling(h) == {i \in Transitions(h) : h[i].close < h[PrevMonthEnd(h, i)].close}

\* C5 as stated: for every accepted history, of whatever span, the
\* consistency score is in [0,100], equals trunc(positive / 12 * 100), and
\* is 100 for exactly 12 positive monthly transitions and no negative one.
C5_ScoreWithinHundred ==
    HasBundle =>
        /\ result.consistency \in 0..100
        /\ result.consistency = (Cardinality(Rising(hist)) * 100) \div 12
        /\ (Cardinality(Rising(hist)) = 12 /\ Falling(hist) = {})
               => result.consistency = 100

\* C5 amended: the consistency score is the non-negative integer
\* trunc(positive / 12 * 100); it is in [0,100] exactly when the history has
\* at most 12 strictly positive monthly transitions, and is 100 for exactly
\* 12 positive monthly transitions and no negative one.
C5_ScoreIsTruncatedTwelfths ==
    HasBundle =>
        LET positive == Cardinality(Rising(hist))
        IN  /\ result.consistency = (positive * 100) \div 12
            /\ result.consistency >= 0
            /\ result.consistency <= 100 <=> positive <= 12
            /\ (positive = 12 /\ Falling(hist) = {}) => result.consistency = 100

C5_Witness ==
    /\ HasBundle
    /\ Cardinality(Rising(hist)) = 12 /\ Falling(hist) = {}
    /\ result.consistency = 100

\* C6: the SIP projector fails with a tagged DivisionError whenever the
\* current price is <= 0; monthly units = contribution / price is produced
\* only for a price > 0.
C6_NonPositivePriceIsDivisionError ==
    Projected =>
        /\ result.price <= 0 => units.kind = "DivisionError"
        /\ result.price > 0 => units = Rat(monthly_budget, result.price)

\* C7: every run that reaches the SIP projection has a monthly
\* contribution >= 0 and an integer duration of 1 to 10 years.
C7_InputsInRange ==
    (HasBundle /\ pc \in {"project", "score", "done"}) =>
        /\ monthly_budget >= 0
        /\ years \in 1..10

\* C8: with r = cagr/12 and n = years*12, the future value is
\* m * (((1+r)^n - 1) / r) when r > 0 and exactly m * n when r <= 0 (6000
\* for cagr <= 0, m = 500, one year); the sign of cagr alone picks the branch.
C8_FutureValueBranches ==
    (Projected /\ IsNum(result.cagr)) =>
        LET cagr == result.cagr
            r == Reduced(cagr.num, cagr.den * 12)
            n == years * 12
        IN  /\ cagr.num > 0 => fv = Annuity(monthly_budget, r, n)
            /\ cagr.num <= 0 => fv = Rat(monthly_budget * n, 1)
            /\ (cagr.num <= 0 /\ monthly_budget = 500 /\ years = 1)
                   => fv = Rat(6000, 1)

C8_Witness ==
    /\ Projected
    /\ hist[1].close = 20 /\ result.price = 24
    /\ monthly_budget = 500 /\ years = 2
    /\ fv = Annuity(500, Rat(1, 60), 24)

\* C9: the discipline score is min(100, 50 + D + C + L) with D = 20 for
\* years >= 5, 10 for years >= 3, else 0; C = 15 for a contribution >= 1000,
\* 10 for >= 500, else 0; L = 15 for LOW risk, else 0.  It is an integer in
\* [50,100], 100 for (5 years, 1000, LOW) and 50 for (1 year, 100, HIGH).
C9_DisciplineScoreTable ==
    Scored =>
        LET D == IF years >= 5 THEN 20 ELSE IF years >= 3 THEN 10 ELSE 0
            C == IF monthly_budget >= 1000 THEN 15
                 ELSE IF monthly_budget >= 500 THEN 10 ELSE 0
            L == IF result.risk = LOW THEN 15 ELSE 0
            total == 50 + D + C + L
        IN  /\ discipline_score = (IF total > 100 THEN 100 ELSE total)
            /\ discipline_score \in 50..100
            /\ (years = 5 /\ monthly_budget = 1000 /\ result.risk = LOW)
                   => discipline_score = 100
            /\ (years = 1 /\ monthly_budget = 100 /\ result.risk = HIGH)
                   => discipline_score = 50

C9_Witness ==
    /\ Scored
    /\ years = 5 /\ monthly_budget = 1000 /\ result.risk = LOW
    /\ discipline_score = 100

\* C10: where the volatility is defined the risk tier is LOW iff
\* volatility < 0.25, MODERATE iff 0.25 <= volatility < 0.40, HIGH iff
\* volatility >= 0.40; volatility 0.25 is MODERATE and 0.40 is HIGH.
\* (volatility^2 = 252 * variance; 0.25^2 = 1/16 and 0.40^2 = 4/25, so the
\* thresholds are variance < 1/4032 and variance < 1/1575.)
C10_RiskTierThresholds ==
    HasBundle =>
        LET v == SampleVariance(PctChange(CloseOf(hist)))
        IN  IsNum(v) =>
              LET below25 == v.den > 0 /\ v.num <= (v.den - 1) \div 4032
                  below40 == v.den > 0 /\ v.num <= (v.den - 1) \div 1575
              IN  /\ result.risk = LOW <=> below25
                  /\ result.risk = MODERATE <=> (~below25 /\ below40)
                  /\ result.risk = HIGH <=> ~below40
                  /\ (hist = QuarterVolHistory) =>
                         (v.num * 4032 = v.den /\ result.risk = MODERATE)
                  /\ (hist = FortyVolHistory) =>
                         (v.num * 1575 = v.den /\ result.risk = HIGH)

C10_Witness ==
    HasBundle /\ hist = QuarterVolHistory /\ result.risk = MODERATE
====
